---- MODULE Spec2Model ----
(***************************************************************************)
(* vite-minify-static-plugin: a model of the plugin's two drafts.          *)
(*   "esbuild" : src/src/index.ts       (transformSync, synchronous hook)  *)
(*   "terser"  : src/unnamed/part_000   (terser minify, async hook,        *)
(*                                       safeUnlink)                       *)
(* A JavaScript value that may be missing is a record [k, v]:              *)
(*   k = "absent"     the object has no such own property                  *)
(*   k = "undefined"  the property is present and holds undefined          *)
(*   k = "value"      the property holds v                                 *)
(* Text (directory paths, file contents) is a sequence of one-character    *)
(* strings, so that String.includes and byte lengths are computed.         *)
(***************************************************************************)
EXTENDS Integers, Sequences, FiniteSets, TLC

VARIABLES
  variant,      \* which draft of the plugin is running
  manifest,     \* package.json at the working directory
  userOptions,  \* the argument of minifyStatic
  options,      \* the effective configuration built by minifyStatic
  srcRoot,      \* the directory (under cwd) the project keeps its static files in
  src,          \* the source files that exist: relative path -> content
  out,          \* bundle directory -> tree of the output directory
  pc,           \* "new" | "idle" | "loop": position of the plugin
  run,          \* locals of the writeBundle invocation in progress
  log,          \* console lines of the current / last invocation
  hook,         \* how the last writeBundle invocation ended
  hist          \* history of the invocations (for the properties only)

vars == <<variant, manifest, userOptions, options, srcRoot, src, out, pc, run,
          log, hook, hist>>

(***************************************************************************)
(* Bounds                                                                  *)
(***************************************************************************)
MaxRuns    == 2   \* writeBundle invocations the host makes
MaxDeletes == 1   \* source files another process deletes while a run is in its loop

(***************************************************************************)
(* JavaScript values                                                       *)
(***************************************************************************)
Absent(d) == [k |-> "absent", v |-> d]
Undef(d)  == [k |-> "undefined", v |-> d]
Val(x)    == [k |-> "value", v |-> x]

NoBag == [x \in {} |-> ""]

\* {...a, ...b} on option bags (functions from key to value)
Spread(a, b) ==
  [key \in (DOMAIN a) \cup (DOMAIN b) |-> IF key \in DOMAIN b THEN b[key] ELSE a[key]]

\* String.prototype.includes
Includes(s, sub) ==
  \E i \in 1..(Len(s) - Len(sub) + 1) : SubSeq(s, i, i + Len(sub) - 1) = sub

Client == <<"c","l","i","e","n","t">>
Server == <<"s","e","r","v","e","r">>
Ssr    == <<"s","s","r">>

(***************************************************************************)
(* Files and glob patterns                                                 *)
(***************************************************************************)
\* a relative path: the directories, then base name and extension
FileA == [dir |-> <<>>, base |-> "a", ext |-> ".js"]
FileB == [dir |-> <<"widgets">>, base |-> "b", ext |-> ".mjs"]
Files == {FileA, FileB}

\* path.join(file): the components of the relative path
Components(f) == f.dir \o <<f.base \o f.ext>>

\* a glob pattern: <dir>/**/*<ext> (deep) or <dir>/*<ext>
Pattern(deep, dir, ext) == [deep |-> deep, dir |-> dir, ext |-> ext]
AllJs  == Pattern(TRUE, <<>>, ".js")
AllMjs == Pattern(TRUE, <<>>, ".mjs")
WidgetsMjs == Pattern(FALSE, <<"widgets">>, ".mjs")

IsPrefix(p, q) == Len(p) <= Len(q) /\ SubSeq(q, 1, Len(p)) = p

Matches(pat, f) ==
  /\ f.ext = pat.ext
  /\ IF pat.deep THEN IsPrefix(pat.dir, f.dir) ELSE f.dir = pat.dir

(***************************************************************************)
(* Configuration: defaultOptions, detectFramework, getDefaultSourceDir,    *)
(* minifyStatic                                                            *)
(***************************************************************************)
Frameworks == {"sveltekit", "react", "vue", "vanilla"}

\* esBuildOptions of index.ts, terserOptions of part_000
DefaultBag(v) ==
  IF v = "esbuild"
    THEN [target |-> "es2020", minify |-> "true", format |-> "iife", loader |-> "js"]
    ELSE [compress |-> "true", mangle |-> "true", format |-> [comments |-> "false"]]

defaultOptions(v) ==
  [sourceDir        |-> Val("public"),
   files            |-> Val(<<AllJs, AllMjs>>),
   transformOptions |-> Val(DefaultBag(v)),
   verbose          |-> Val(FALSE),
   framework        |-> Val("auto"),
   outputDir        |-> Undef("")]

OptionKeys == DOMAIN defaultOptions("esbuild")

\* the manifest: readable JSON with dependency keys, or missing / malformed
SvelteKitDep == "@sveltejs/kit"
ReactDeps    == {"react", "@vitejs/plugin-react"}
VueDeps      == {"vue", "@vitejs/plugin-vue"}
DepKeys      == {SvelteKitDep} \cup ReactDeps \cup VueDeps \cup {"lodash"}
Manifests    == {[ok |-> FALSE, deps |-> {}]} \cup [ok : {TRUE}, deps : SUBSET DepKeys]

detectFramework(man) ==
  IF ~man.ok THEN "vanilla"
  ELSE IF SvelteKitDep \in man.deps THEN "sveltekit"
  ELSE IF man.deps \cap ReactDeps # {} THEN "react"
  ELSE IF man.deps \cap VueDeps # {} THEN "vue"
  ELSE "vanilla"

getDefaultSourceDir(framework) ==
  IF framework = "sveltekit" THEN "static" ELSE "public"

\* a string-valued property is truthy when it holds a non-empty string
TruthyStr(x) == x.k = "value" /\ x.v # ""

\* userOptions.framework === 'auto' ? detectFramework() : userOptions.framework || 'vanilla'
DetectedFramework(uo, man) ==
  IF uo.framework.k = "value" /\ uo.framework.v = "auto" THEN detectFramework(man)
  ELSE IF TruthyStr(uo.framework) THEN uo.framework.v
  ELSE "vanilla"

\* ...userOptions: every own property of userOptions, undefined ones included
SpreadUser(base, uo) ==
  [key \in OptionKeys |-> IF uo[key].k # "absent" THEN uo[key] ELSE base[key]]

\* part_000 only: terserOptions: {...defaultOptions.terserOptions, ...userOptions.terserOptions}
MergedBag(v, uo) ==
  Spread(DefaultBag(v),
         IF uo.transformOptions.k = "value" THEN uo.transformOptions.v ELSE NoBag)

minifyStatic(v, uo, man) ==
  LET detectedFramework == DetectedFramework(uo, man)
      withSourceDir ==
        [defaultOptions(v) EXCEPT !.sourceDir =
           Val(IF TruthyStr(uo.sourceDir) THEN uo.sourceDir.v
               ELSE getDefaultSourceDir(detectedFramework))]
      spread == SpreadUser(withSourceDir, uo)
      merged == IF v = "terser"
                  THEN [spread EXCEPT !.transformOptions = Val(MergedBag(v, uo))]
                  ELSE spread
  IN [merged EXCEPT !.framework = Val(detectedFramework)]

\* a filter that keeps SvelteKit's exclusion of server bundles next to the client test
shouldProcessBundle_ClientOnly(dir, framework) ==
  IF framework = "sveltekit"
    THEN Includes(dir, Client) /\ ~Includes(dir, Server) /\ ~Includes(dir, Ssr)
    ELSE ~Includes(dir, Server) /\ ~Includes(dir, Ssr)

\* a filter that forgets the 'ssr' marker
shouldProcessBundle_ForgetsSsr(dir, framework) ==
  IF framework = "sveltekit" THEN Includes(dir, Client)
  ELSE ~Includes(dir, Server)

\* shouldProcessBundle(bundleOptions, framework); dir is <<>> when it is missing
shouldProcessBundle(dir, framework) ==
  IF framework = "sveltekit" THEN Includes(dir, Client)
  ELSE ~Includes(dir, Server) /\ ~Includes(dir, Ssr)

(***************************************************************************)
(* The external minifiers, at their interface.  A file content is a        *)
(* sequence of tokens: "x" is code, "#" is whitespace or a comment, "!" is *)
(* a syntax error.                                                         *)
(***************************************************************************)
\* one content per way a minifier can treat a file: it shrinks, it is minimal
\* already, nothing is left of it, it is empty, it does not parse
Codes == {<<"x", "#">>, <<"x">>, <<"#">>, <<>>, <<"!">>}

IsCode(c) == c = "x"
HasSyntaxError(code) == \E i \in 1..Len(code) : code[i] = "!"
Strip(code) == SelectSeq(code, IsCode)

\* Buffer.byteLength
byteLength(text) == Len(text)

BagHas(bag, key, value) == key \in DOMAIN bag /\ bag[key] = value

\* esbuild transformSync(code, {...esBuildOptions, loader}); throws on a syntax error
transformSync(code, bag) ==
  LET body == IF BagHas(bag, "minify", "true") THEN Strip(code) ELSE code
  IN IF BagHas(bag, "format", "iife") THEN <<"(">> \o body \o <<")">> ELSE body

\* terser minify(code, terserOptions); rejects on a syntax error
minify(code, bag) == Strip(code)

(***************************************************************************)
(* The filesystem under a bundle directory.  A path is the sequence of its *)
(* components relative to the bundle directory; <<>> is the directory      *)
(* itself, which the bundler has written.  A node is a directory, a        *)
(* regular file, or a symbolic link to a directory ("link"), which every   *)
(* call but unlink follows; what lies behind a link is kept under its path.*)
(***************************************************************************)
SubDirs == {"min"}

Prefixes(p) == {SubSeq(p, 1, i) : i \in 1..Len(p)}
NodePaths ==
  UNION {Prefixes(pre \o Components(f)) : pre \in {<<>>} \cup {<<d>> : d \in SubDirs}, f \in Files}

NoNode      == [kind |-> "none", data |-> <<>>]
DirNode     == [kind |-> "dir", data |-> <<>>]
LinkNode    == [kind |-> "link", data |-> <<>>]
FileNode(c) == [kind |-> "file", data |-> c]

Parent(p) == SubSeq(p, 1, Len(p) - 1)
\* a tree holds the nodes that exist: path -> directory, link or regular file
NodeAt(t, p) == IF p \in DOMAIN t THEN t[p] ELSE NoNode
Kind(t, p) == IF p = <<>> THEN "dir" ELSE NodeAt(t, p).kind
Put(t, p, node) == [q \in DOMAIN t \cup {p} |-> IF q = p THEN node ELSE t[q]]
\* p resolves to a directory (a directory or a link to one): what
\* statSync(p).isFile() is false for and what writeFileSync cannot replace
IsDirectory(t, p) == Kind(t, p) \in {"dir", "link"}

\* a node exists only inside a directory
WellFormed(t) == \A p \in DOMAIN t : IsDirectory(t, Parent(p))

existsSync(t, p) == Kind(t, p) # "none"

\* mkdirSync(p, {recursive: true}) fails when a component of p is a regular file
mkdirOk(t, p) == \A q \in Prefixes(p) : Kind(t, q) # "file"
mkdirSync(t, p) ==
  [q \in DOMAIN t \cup Prefixes(p) |-> IF q \in DOMAIN t THEN t[q] ELSE DirNode]

\* unlinkSync(p) removes a regular file or a link (with it, the paths through
\* the link) and fails on a directory and on a missing path
unlinkOk(t, p) == Kind(t, p) \in {"file", "link"}
unlinkSync(t, p) == [q \in {q \in DOMAIN t : ~IsPrefix(p, q)} |-> t[q]]

\* writeFileSync(p, data) needs p's parent to be a directory and p not to be one
writeOk(t, p) == IsDirectory(t, Parent(p)) /\ ~IsDirectory(t, p)
writeFileSync(t, p, data) == Put(t, p, FileNode(data))

\* console lines: level is "log", "warn" or "error"
Line(level, msg, path) == [level |-> level, msg |-> msg, path |-> path]

(***************************************************************************)
(* writeBundle: one iteration of the loop over the selected files          *)
(***************************************************************************)
Verbose(opts) == opts.verbose.k = "value" /\ opts.verbose.v

\* join(outputDir, options.outputDir, file) or join(outputDir, file)
OutputBase(opts) == IF TruthyStr(opts.outputDir) THEN <<opts.outputDir.v>> ELSE <<>>
OutputPath(opts, f) == OutputBase(opts) \o Components(f)

\* part_000: safeUnlink(filePath); no modelled filesystem state makes statSync
\* or unlinkSync throw here, so the catch branch is never taken
safeUnlink(t, p) ==
  IF ~existsSync(t, p) THEN [ok |-> TRUE, tree |-> t, lines |-> {}]
  ELSE IF Kind(t, p) = "file"
    THEN [ok |-> TRUE, tree |-> unlinkSync(t, p), lines |-> {}]
    ELSE [ok |-> FALSE, tree |-> t,
          lines |-> {Line("warn", "cannot-unlink-directory", p)}]

Step(outcome, t, lines, data) ==
  [outcome |-> outcome, tree |-> t, lines |-> lines, data |-> data]

\* the per-file catch: console.error(`Error minifying ${file}`)
Caught(t, f) == Step("error", t, {Line("error", "error-minifying", Components(f))}, <<>>)

\* index.ts lines 186-198: ensure the directory, delete the original, write
ReplaceEsbuild(t, f, outputPath, data) ==
  LET outputDirPath == Parent(outputPath)
  IN IF ~existsSync(t, outputDirPath)
       THEN Caught(t, f)                \* require('fs').mkDirSync is not a function
     ELSE IF existsSync(t, outputPath) /\ ~unlinkOk(t, outputDirPath)
       THEN Caught(t, f)                \* unlinkSync(outputDirPath) throws on a directory
     \* on a link to a directory it removes the link, and the write finds no parent
     ELSE LET t2 == IF existsSync(t, outputPath) THEN unlinkSync(t, outputDirPath) ELSE t
          IN IF writeOk(t2, outputPath)
               THEN Step("success", writeFileSync(t2, outputPath, data), {}, data)
               ELSE Caught(t2, f)

\* part_000 lines 326-341: ensure the directory, safeUnlink, write
ReplaceTerser(t, f, outputPath, data) ==
  LET outputDirPath == Parent(outputPath)
  IN IF ~existsSync(t, outputDirPath) /\ ~mkdirOk(t, outputDirPath)
       THEN Caught(t, f)
     ELSE LET t1 == IF existsSync(t, outputDirPath) THEN t ELSE mkdirSync(t, outputDirPath)
              un == IF existsSync(t1, outputPath) THEN safeUnlink(t1, outputPath)
                    ELSE [ok |-> TRUE, tree |-> t1, lines |-> {}]
          IN IF ~un.ok
               THEN Step("skipped-directory", un.tree,
                         un.lines \cup {Line("warn", "could-not-replace", outputPath)}, <<>>)
             ELSE IF writeOk(un.tree, outputPath)
               THEN Step("success", writeFileSync(un.tree, outputPath, data), un.lines, data)
               ELSE [Caught(un.tree, f) EXCEPT !.lines = @ \cup un.lines]

\* what the loop body finds at sourcePath: [has |-> FALSE] when there is no file
NoSource   == [has |-> FALSE, code |-> <<>>]
Source(c)  == [has |-> TRUE, code |-> c]

SourceMissing(opts, f) ==
  Step("skipped-missing", <<>>,
       IF Verbose(opts) THEN {Line("warn", "source-missing", Components(f))} ELSE {}, <<>>)

\* the body of the for loop: index.ts lines 158-213
ProcessEsbuild(opts, t, source, f) ==
  IF ~source.has THEN [SourceMissing(opts, f) EXCEPT !.tree = t]
  ELSE IF opts.transformOptions.k # "value"
    THEN Caught(t, f)                   \* options.esBuildOptions.loader of undefined
  ELSE IF HasSyntaxError(source.code) THEN Caught(t, f)
  ELSE ReplaceEsbuild(t, f, OutputPath(opts, f),
                      transformSync(source.code, opts.transformOptions.v))

\* the body of the for loop: part_000 lines 303-356
ProcessTerser(opts, t, source, f) ==
  IF ~source.has THEN [SourceMissing(opts, f) EXCEPT !.tree = t]
  ELSE IF HasSyntaxError(source.code) THEN Caught(t, f)
  ELSE LET code == minify(source.code, opts.transformOptions.v)
       IN IF code = <<>>
            THEN Step("skipped-empty-result", t,
                      {Line("warn", "empty-result", Components(f))}, <<>>)
            ELSE ReplaceTerser(t, f, OutputPath(opts, f), code)

ProcessOne(v, opts, t, source, f) ==
  IF v = "esbuild" THEN ProcessEsbuild(opts, t, source, f)
  ELSE ProcessTerser(opts, t, source, f)

\* verbose accounting of a minified file: originalSize - minifiedSize
Savings(opts, source, step) ==
  IF step.outcome = "success" /\ Verbose(opts)
    THEN byteLength(source.code) - byteLength(step.data) ELSE 0

\* a loop whose per-file catch is missing: an exception ends it
NextIndex_StopsOnError(i, n, outcome) == IF outcome = "error" THEN n + 1 ELSE i + 1

\* the loop goes on with the next file after every outcome
NextIndex(i, n, outcome) == i + 1

(***************************************************************************)
(* The inputs                                                              *)
(***************************************************************************)
Dist       == <<"d","i","s","t">>
Build      == <<"b","u","i","l","d">>
DistClient == Dist \o <<"/">> \o Client
DistServer == Dist \o <<"/">> \o Server
DistSsr    == Dist \o <<"/">> \o Ssr
ClientSsr  == Client \o <<"-">> \o Ssr
NoDir      == <<>>          \* the descriptor carries no directory
AllDirs    == {Dist, Build, DistClient, DistServer, DistSsr, ClientSsr, NoDir}

NoOptions ==
  [sourceDir        |-> Absent(""),
   files            |-> Absent(<<>>),
   transformOptions |-> Absent(NoBag),
   verbose          |-> Absent(FALSE),
   framework        |-> Absent(""),
   outputDir        |-> Absent("")]

OldCode == <<"o">>   \* what the bundler copied to the output before

EmptyTree == [p \in {} |-> NoNode]
TreesOver(paths) ==
  {t \in UNION {[S -> {DirNode, LinkNode, FileNode(OldCode)}] : S \in SUBSET paths} :
     /\ WellFormed(t)
     \* where the configuration writes a file there is no link
     /\ \A p \in DOMAIN t : t[p] = LinkNode => \E q \in paths : q # p /\ IsPrefix(p, q)}
\* the output trees that are empty outside the paths the configuration writes to
TreesUnder(opts) == TreesOver(UNION {Prefixes(OutputPath(opts, f)) : f \in Files})

IdleRun == [dir |-> NoDir, files |-> <<>>, i |-> 0, minifiedCount |-> 0, totalSavings |-> 0]
NoFiles == [f \in {} |-> <<>>]
NoRecord == [valid |-> FALSE, dir |-> NoDir, after |-> EmptyTree, src0 |-> NoFiles]

InitHist ==
  [n |-> 0, deleted |-> 0, invoked |-> {}, passed |-> {}, worked |-> {},
   skipped |-> FALSE, touched |-> FALSE, selected |-> <<>>, tree0 |-> EmptyTree,
   dir |-> NoDir, start |-> EmptyTree, src0 |-> NoFiles,
   outcome |-> NoFiles,
   last |-> NoRecord, prev |-> NoRecord]

\* the state after minifyStatic(userOptions) has returned the plugin
InitWith(Variants, UserOptions, Mans, SrcFiles, anyTree, DirSet) ==
  /\ variant \in Variants
  /\ userOptions \in UserOptions
  /\ manifest \in Mans
  /\ options = minifyStatic(variant, userOptions, manifest)
  \* the project keeps its static files where its framework expects them
  /\ srcRoot = getDefaultSourceDir(options.framework.v)
  /\ src \in SrcFiles
  /\ \E t \in (IF anyTree THEN TreesUnder(options) ELSE {EmptyTree}) :
       /\ out = [d \in DirSet |-> t]
       /\ hist = [InitHist EXCEPT !.tree0 = t]
  /\ pc = "idle"
  /\ run = IdleRun
  /\ log = {}
  /\ hook = "none"

(***************************************************************************)
(* The writeBundle hook                                                    *)
(***************************************************************************)
\* glob.sync(options.files, {cwd: sourceDir, onlyFiles: true}): the matches, as a set
Glob(opts) ==
  IF opts.sourceDir.v # srcRoot THEN {}
  ELSE {f \in DOMAIN src : \E j \in 1..Len(opts.files.v) : Matches(opts.files.v[j], f)}

\* the orders in which the matches may be discovered
Orders(S) == {q \in [1..Cardinality(S) -> S] : \A f \in S : \E j \in DOMAIN q : q[j] = f}

\* what an invocation leaves behind when it returns (or throws)
Finished(h, d, tree) ==
  [h EXCEPT !.prev = h.last,
            !.last = [valid |-> TRUE, dir |-> d, after |-> tree, src0 |-> h.src0]]

Started(d) ==
  [hist EXCEPT !.n = @ + 1, !.dir = d, !.start = out[d], !.src0 = src,
               !.invoked = @ \cup {d},
               !.skipped = FALSE, !.touched = FALSE, !.selected = <<>>,
               !.outcome = NoFiles]

Return(h, d, lines, how) ==
  /\ pc' = "idle"
  /\ run' = IdleRun
  /\ log' = lines
  /\ hook' = how
  /\ hist' = Finished(h, d, out[d])
  /\ UNCHANGED out

\* writeBundle(bundleOptions) up to the first iteration of the loop
WriteBundle(d) ==
  /\ pc = "idle"
  /\ hist.n < MaxRuns
  /\ d \in DOMAIN out
  /\ LET h == Started(d)
         looking == IF Verbose(options) THEN {Line("log", "looking", <<>>)} ELSE {}
     IN IF ~shouldProcessBundle(d, options.framework.v)
          THEN Return([h EXCEPT !.skipped = TRUE], d,
                      IF Verbose(options) THEN {Line("log", "skipping-bundle", <<>>)} ELSE {},
                      "returned")
        ELSE LET hp == [h EXCEPT !.passed = @ \cup {d}]
             IN IF options.sourceDir.k # "value"
                  \* join(process.cwd(), undefined) throws outside every try
                  THEN Return(hp, d, {}, "threw")
                ELSE IF d = NoDir
                  THEN Return(hp, d, {Line("warn", "no-output-directory", <<>>)}, "returned")
                ELSE IF options.files.k # "value"
                  \* glob.sync(undefined) throws inside the outer try
                  THEN Return(hp, d, looking \cup {Line("error", "plugin-error", <<>>)},
                              "returned")
                ELSE IF Glob(options) = {}
                  THEN Return([hp EXCEPT !.touched = TRUE], d,
                              looking \cup (IF Verbose(options)
                                              THEN {Line("log", "no-files", <<>>)} ELSE {}),
                              "returned")
                ELSE \E filesToMinify \in Orders(Glob(options)) :
                       /\ pc' = "loop"
                       /\ run' = [dir |-> d, files |-> filesToMinify, i |-> 1,
                                  minifiedCount |-> 0, totalSavings |-> 0]
                       /\ log' = looking
                       /\ hook' = "running"
                       /\ hist' = [hp EXCEPT !.touched = TRUE, !.worked = @ \cup {d},
                                             !.selected = filesToMinify]
                       /\ UNCHANGED out
  /\ UNCHANGED <<variant, manifest, userOptions, options, srcRoot, src>>

\* one iteration of the loop; after the last one, the summary and the return
ProcessFile ==
  /\ pc = "loop"
  /\ LET f    == run.files[run.i]
         n    == Len(run.files)
         source == IF options.sourceDir.v = srcRoot /\ f \in DOMAIN src
                     THEN Source(src[f]) ELSE NoSource
         step == ProcessOne(variant, options, out[run.dir], source, f)
         count == run.minifiedCount + (IF step.outcome = "success" THEN 1 ELSE 0)
         total == run.totalSavings + Savings(options, source, step)
         lines == log \cup step.lines
                      \cup (IF step.outcome = "success" /\ Verbose(options)
                              THEN {Line("log", "minified", Components(f))} ELSE {})
         i2   == NextIndex(run.i, n, step.outcome)
         h    == [hist EXCEPT !.outcome = Put(hist.outcome, f, step.outcome)]
     IN /\ out' = [out EXCEPT ![run.dir] = step.tree]
        /\ IF i2 <= n
             THEN /\ pc' = "loop"
                  /\ run' = [run EXCEPT !.i = i2, !.minifiedCount = count,
                                        !.totalSavings = total]
                  /\ log' = lines
                  /\ hist' = h
                  /\ UNCHANGED hook
             ELSE /\ pc' = "idle"
                  /\ run' = [IdleRun EXCEPT !.minifiedCount = count, !.totalSavings = total]
                  /\ log' = lines \cup (IF count > 0
                                          THEN {Line("log", "summary", <<>>)} ELSE {})
                  /\ hist' = Finished(h, run.dir, step.tree)
                  /\ hook' = "returned"
  /\ UNCHANGED <<variant, manifest, userOptions, options, srcRoot, src>>

\* another process deletes a source file between selection and processing
DeleteSource(f) ==
  /\ pc = "loop"
  /\ hist.deleted < MaxDeletes
  /\ f \in DOMAIN src
  /\ src' = [g \in DOMAIN src \ {f} |-> src[g]]
  /\ hist' = [hist EXCEPT !.deleted = @ + 1]
  /\ UNCHANGED <<variant, manifest, userOptions, options, srcRoot, out, pc, run, log,
                 hook>>

Next ==
  \/ \E d \in AllDirs : WriteBundle(d)
  \/ ProcessFile
  \/ \E f \in Files : DeleteSource(f)

(***************************************************************************)
(* Specifications                                                          *)
(***************************************************************************)
ReactManifest  == [ok |-> TRUE, deps |-> {"react", "lodash"}]
SvelteManifest == [ok |-> TRUE, deps |-> {SvelteKitDep, "vue"}]
NoManifest     == [ok |-> FALSE, deps |-> {}]

\* the pipeline: one processed build output, every source and output tree
PipelineOptions ==
  {NoOptions,
   [NoOptions EXCEPT !.verbose = Val(TRUE)],
   [NoOptions EXCEPT !.outputDir = Val("min")],
   [NoOptions EXCEPT !.transformOptions = Val([minify |-> "true"])],
   [NoOptions EXCEPT !.transformOptions = Undef(NoBag)]}

Init ==
  InitWith({"esbuild", "terser"}, PipelineOptions, {ReactManifest},
           UNION {[S -> Codes] : S \in SUBSET Files}, TRUE, {Dist})

Spec == Init /\ [][Next]_vars

\* the host: every build output descriptor, the framework and the options that
\* decide whether and where the hook works; one source tree, empty outputs
HostOptions ==
  {[NoOptions EXCEPT !.framework = fw, !.sourceDir = sd, !.files = fs, !.verbose = vb] :
     fw \in {Absent(""), Val("auto"), Val("sveltekit"), Val("react"), Val("vanilla")},
     sd \in {Absent(""), Undef("")},
     fs \in {Absent(<<>>), Undef(<<>>), Val(<<WidgetsMjs>>)},
     vb \in {Absent(FALSE), Val(TRUE)}}

InitHost ==
  InitWith({"esbuild", "terser"}, HostOptions, {ReactManifest, SvelteManifest, NoManifest},
           {[f \in Files |-> <<"x", "#">>]}, FALSE, AllDirs)

SpecHost == InitHost /\ [][Next]_vars

\* construction: minifyStatic(userOptions) for every configuration and manifest
UserBags(v) ==
  IF v = "esbuild"
    THEN {[target |-> "es2015"], [minify |-> "false"],
          [target |-> "es2015", format |-> "esm"],
          [target |-> "esnext", minify |-> "true", format |-> "cjs", loader |-> "ts"]}
    ELSE {[compress |-> "false"], [mangle |-> "false", sourcemap |-> "true"],
          [format |-> [beautify |-> "true"]],
          [format |-> [comments |-> "all"]],
          [compress |-> "false", mangle |-> "false", format |-> [comments |-> "false"]]}

ConfigOptions(v) ==
  {[NoOptions EXCEPT !.framework = fw, !.sourceDir = sd, !.transformOptions = bag] :
     fw \in {Absent(""), Undef(""), Val("auto")} \cup {Val(x) : x \in Frameworks},
     sd \in {Absent(""), Undef(""), Val("assets")},
     bag \in {Absent(NoBag), Undef(NoBag)} \cup {Val(b) : b \in UserBags(v)}}

InitConfig ==
  /\ variant \in {"esbuild", "terser"}
  /\ userOptions \in ConfigOptions(variant)
  /\ manifest \in Manifests
  /\ options = defaultOptions(variant)
  /\ srcRoot = "public"
  /\ src = NoFiles
  /\ out = [d \in {Dist} |-> EmptyTree]
  /\ pc = "new"
  /\ run = IdleRun
  /\ log = {}
  /\ hook = "none"
  /\ hist = InitHist

Construct ==
  /\ pc = "new"
  /\ options' = minifyStatic(variant, userOptions, manifest)
  /\ pc' = "idle"
  /\ UNCHANGED <<variant, manifest, userOptions, srcRoot, src, out, run, log, hook, hist>>

NextConfig == Construct

SpecConfig == InitConfig /\ [][NextConfig]_vars

(***************************************************************************)
(* Properties of the construction (specification SpecConfig)               *)
(***************************************************************************)
\* C1 (as claimed, for both drafts): the effective framework is
\* detectFramework's answer when the user's framework is 'auto' or not
\* supplied, the user's literal when it is one of the four frameworks, and
\* never 'auto'; a SvelteKit manifest with no options gives 'sveltekit' and
\* the source directory 'static'.
C1_FrameworkResolved ==
  pc = "idle" =>
    /\ (userOptions.framework.k = "absent" \/ userOptions.framework = Val("auto"))
         => options.framework = Val(detectFramework(manifest))
    /\ (userOptions.framework.k = "value" /\ userOptions.framework.v \in Frameworks)
         => options.framework = userOptions.framework
    /\ options.framework.v # "auto"
    /\ (userOptions = NoOptions /\ detectFramework(manifest) = "sveltekit")
         => options.sourceDir = Val("static")

\* eff holds the user's value for every key of usr and the default for every
\* other key of def
MergedOver(def, usr, eff, keys) ==
  \A key \in keys :
    /\ key \in DOMAIN eff
    /\ key \in DOMAIN usr => eff[key] = usr[key]
    /\ key \notin DOMAIN usr => eff[key] = def[key]

\* C2 (as claimed, for both drafts): the effective transformer options hold the
\* user's value for each sub-key the user supplied and the default for every
\* other sub-key, at the top level of the bag and inside each nested group.
C2_DeepMerged ==
  (pc = "idle" /\ userOptions.transformOptions.k = "value") =>
    LET def == DefaultBag(variant)
        usr == userOptions.transformOptions.v
        eff == options.transformOptions.v
        groups == IF variant = "terser" THEN {"format"} ELSE {}
        keys == DOMAIN def \cup DOMAIN usr
    IN /\ options.transformOptions.k = "value"
       /\ MergedOver(def, usr, eff, keys \ (groups \cap DOMAIN usr))
       /\ \A g \in groups \cap DOMAIN usr :
            /\ g \in DOMAIN eff
            /\ MergedOver(def[g], usr[g], eff[g], DOMAIN def[g] \cup DOMAIN usr[g])

(***************************************************************************)
(* Properties of the hook (specification SpecHost)                         *)
(***************************************************************************)
\* the filter as the claims state it
Passes(d, fw) ==
  IF fw = "sveltekit" THEN Includes(d, Client)
  ELSE ~Includes(d, Server) /\ ~Includes(d, Ssr)

\* C3: for framework 'sveltekit' an invocation passes the filter exactly when
\* its directory contains 'client', whatever else it contains; for 'react',
\* 'vue' and 'vanilla' exactly when it contains neither 'server' nor 'ssr'.
\* An invocation that does not pass reads and writes no file.
C3_BundleFilter ==
  hist.n > 0 =>
    /\ options.framework.v \in Frameworks
    /\ hist.skipped <=> ~Passes(hist.dir, options.framework.v)
    /\ hist.skipped =>
         /\ ~hist.touched
         /\ pc = "idle" /\ hook = "returned"
         /\ hist.selected = <<>> /\ hist.outcome = NoFiles
         /\ out[hist.dir] = hist.start

\* a SvelteKit build output whose path holds both 'client' and 'ssr' is in its loop
C3_Witness ==
  /\ options.framework.v = "sveltekit"
  /\ hist.dir = ClientSsr
  /\ ~hist.skipped
  /\ pc = "loop"

\* C7 (as claimed, for both drafts): the hook never throws and never returns a
\* rejected promise, whatever the configuration, the descriptor and the
\* filesystem.
C7_NeverThrows == hook # "threw"

Range(q) == {q[j] : j \in DOMAIN q}

\* the invocation hist.dir has run its loop to the end and returned
LoopDone == pc = "idle" /\ hist.selected # <<>>

\* f has been through the loop body in the current / last invocation
Outcome(f) == IF f \in DOMAIN hist.outcome THEN hist.outcome[f] ELSE "none"
Processed(f) == Outcome(f) # "none"

Dest(f) == OutputPath(options, f)

\* the text the minifier gives for f's content, when f is read and parses
ReadAndParsed(f) ==
  /\ Processed(f)
  /\ f \in DOMAIN src
  /\ options.transformOptions.k = "value"
  /\ ~HasSyntaxError(src[f])
Minified(f) ==
  IF variant = "esbuild" THEN transformSync(src[f], options.transformOptions.v)
  ELSE minify(src[f], options.transformOptions.v)

WarnedAbout(f) ==
  \E l \in log : l.level = "warn" /\ l.path \in {Components(f), Dest(f)}

\* C4 (as claimed, for both drafts): when the destination of a selected file
\* already exists as a directory, the directory and all inside it stay as they
\* were, a warning is logged for the file, the file is not counted and no
\* exception leaves the per-file step.
C4_DirectoryGuard ==
  \A f \in Files :
    (ReadAndParsed(f) /\ Minified(f) # <<>> /\ IsDirectory(hist.start, Dest(f))) =>
      /\ \A p \in NodePaths :
           IsPrefix(Dest(f), p) => NodeAt(out[hist.dir], p) = NodeAt(hist.start, p)
      /\ WarnedAbout(f)
      /\ Outcome(f) # "success"
      /\ hook # "threw"

\* C5: two runs in a row for the same build output, the source tree untouched
\* from the start of the first to the end of the second, leave the same output
\* tree: same paths, same kinds, same contents.
C5_Idempotent ==
  (/\ pc = "idle"
   /\ hist.prev.valid /\ hist.last.valid
   /\ hist.prev.dir = hist.last.dir
   /\ hist.prev.src0 = src)
  => hist.last.after = hist.prev.after

\* every step the draft takes for f succeeds on the tree t its iteration finds:
\* f is read and minified (to a non-empty text, where the draft asks for one),
\* the directory of the destination is there or can be made, and the draft's
\* removal of a previous destination, where it makes one, succeeds
OwnStepsSucceed(t, f) ==
  /\ f \in DOMAIN src
  /\ options.sourceDir.v = srcRoot
  /\ options.transformOptions.k = "value"
  /\ ~HasSyntaxError(src[f])
  /\ IF variant = "terser"
       THEN /\ Minified(f) # <<>>
            /\ mkdirOk(t, Parent(Dest(f)))
            /\ ~IsDirectory(t, Dest(f))
       ELSE /\ IsDirectory(t, Parent(Dest(f)))
            /\ Kind(t, Dest(f)) = "none"

\* one iteration: the loop goes on to the next file and ends only after the
\* last one; a file whose own steps succeed is written and counted
C6_Iteration ==
  (pc = "loop" /\ run' # run) =>
    LET f == run.files[run.i]
    IN /\ pc' = "loop" => run'.i = run.i + 1
       /\ pc' = "idle" => run.i = Len(run.files)
       /\ OwnStepsSucceed(out[run.dir], f) =>
            /\ NodeAt(out'[run.dir], Dest(f)) = FileNode(Minified(f))
            /\ run'.minifiedCount = run.minifiedCount + 1

\* C6: a failure or a skip on one file never stops the loop: every selected
\* file is attempted, each file whose own steps succeed is written to its
\* destination and counted, and a missing source file is warned about only
\* when verbose.
C6_LoopResilient ==
  /\ [][C6_Iteration]_vars
  /\ [](LoopDone =>
          /\ \A f \in Range(hist.selected) : Processed(f)
          /\ run.minifiedCount = Cardinality({f \in Files : Outcome(f) = "success"})
          /\ \A f \in Files :
               Outcome(f) = "skipped-missing" =>
                 (Line("warn", "source-missing", Components(f)) \in log <=> Verbose(options)))

\* the first selected file failed or was skipped and a later one was written
C6_Witness ==
  /\ LoopDone
  /\ Len(hist.selected) > 1
  /\ Outcome(hist.selected[1]) \in
       {"error", "skipped-missing", "skipped-empty-result", "skipped-directory"}
  /\ Outcome(hist.selected[2]) = "success"

\* C8 (as claimed, for both drafts): a selected file that is read, minifies to
\* a non-empty text and whose destination is not a directory ends up as a
\* regular file holding exactly the minifier's output, whether its parent
\* directories existed or not and whether the destination was absent or a
\* regular file.  (Destinations under a regular file cannot be written by any
\* program and are left out.)
C8_Written ==
  \A f \in Files :
    (/\ ReadAndParsed(f) /\ Minified(f) # <<>>
     /\ ~IsDirectory(hist.start, Dest(f))
     /\ mkdirOk(hist.start, Parent(Dest(f))))
    => NodeAt(out[hist.dir], Dest(f)) = FileNode(Minified(f))

\* C9 (as claimed, for both drafts): when the minifier returns no text for a
\* selected file, nothing is written or deleted at its destination and the
\* file is not counted as minified.
C9_EmptyResult ==
  \A f \in Files :
    (ReadAndParsed(f) /\ Minified(f) = <<>>) =>
      /\ NodeAt(out[hist.dir], Dest(f)) = NodeAt(hist.start, Dest(f))
      /\ Outcome(f) # "success"

====
